---- MODULE Spec2Model ----
(***************************************************************************)
(* A model of gbp/command_wrappers.py: the Command invoker (strict form    *)
(* __call__, lenient form call), RunAtCommand, and the piped tree copy     *)
(* copy_from.                                                              *)
(*                                                                         *)
(* A string is a sequence of one-character strings, so that joining a      *)
(* command line, splitting output on newlines and normalising a path are   *)
(* computed character by character as the code computes them.              *)
(***************************************************************************)
EXTENDS Integers, Sequences, FiniteSets

VARIABLES
    args,        \* self.args: the fixed arguments of the invoker
    shell,       \* self.shell
    extra_env,   \* the extra_env argument the invoker was constructed with
    env,         \* self.env
    retcode,     \* self.retcode
    environ,     \* os.environ of the invoking process
    cwd,         \* the working directory of the invoking process
    ctor,        \* history: self.args and os.environ as they were at construction
    last,        \* history: the most recent invocation and what it did
    pc,          \* copy_from: position of the invoking process
    p1,          \* copy_from: the producer child
    p2,          \* copy_from: the consumer child
    pipeReaders, \* copy_from: who holds the read end of the producer's stdout pipe
    files,       \* copy_from: the local variable files
    result,      \* copy_from: what the caller received as return value
    gbpErrors    \* copy_from: number of GbpError raised to the caller

cmdVars  == <<args, shell, extra_env, env, retcode, environ, cwd, ctor, last>>
copyVars == <<pc, p1, p2, pipeReaders, files, result, gbpErrors>>
vars     == <<args, shell, extra_env, env, retcode, environ, cwd, ctor, last,
              pc, p1, p2, pipeReaders, files, result, gbpErrors>>

----------------------------------------------------------------------------
(* Bounds *)

MaxArgs == 1

MaxExit == 2

MaxSig == 2

MaxLines == 2

----------------------------------------------------------------------------
(* Characters and strings *)

SP == " "

NL == "\n"

SLASH == "/"

DOT == "."

Str_a == <<"a">>

Str_b_c == <<"b", SP, "c">>

ArgPool == {Str_a, Str_b_c}

RECURSIVE SeqsUpTo(_, _)
SeqsUpTo(S, n) ==
    IF n = 0 THEN {<<>>}
    ELSE LET shorter == SeqsUpTo(S, n - 1)
         IN  shorter \cup {Append(s, x) : s \in shorter, x \in S}

ArgLists == SeqsUpTo(ArgPool, MaxArgs)

RECURSIVE Concat(_)
Concat(ss) == IF ss = <<>> THEN <<>> ELSE Head(ss) \o Concat(Tail(ss))

\* str.join with a single space
RECURSIVE Join(_)
Join(words) ==
    IF words = <<>> THEN <<>>
    ELSE IF Len(words) = 1 THEN words[1]
    ELSE words[1] \o <<SP>> \o Join(Tail(words))

\* str.split(sep) for a one-character separator: empty pieces are kept
RECURSIVE SplitOn(_, _)
SplitOn(s, sep) ==
    IF s = <<>> THEN << <<>> >>
    ELSE LET rest == SplitOn(Tail(s), sep)
         IN  IF Head(s) = sep
             THEN << <<>> >> \o rest
             ELSE << <<Head(s)>> \o Head(rest) >> \o Tail(rest)

\* the word splitting /bin/sh -c applies to an unquoted command line
ShellSplit(line) == SelectSeq(SplitOn(line, SP), LAMBDA w : w # <<>>)

----------------------------------------------------------------------------
(* Command: construction *)

\* self.cmd
Prog == <<"t", "a", "r">>

Keys == {"K1", "K2"}

Vals == {"u", "v"}

\* marks a key that the extra_env mapping does not hold
Absent == "absent"

Environs == [Keys -> Vals]

\* extra_env=None
NoExtraEnv == [given |-> FALSE, map |-> [k \in Keys |-> Absent]]

\* extra_env: None (given = FALSE), the empty mapping, or a mapping of K1
ExtraEnvs ==
    { NoExtraEnv,
      [given |-> TRUE,  map |-> [k \in Keys |-> Absent]],
      [given |-> TRUE,  map |-> [k \in Keys |-> IF k = "K1" THEN "x" ELSE Absent]] }

Dirs == {"/w", "/d"}

\* dict.update: the keys of extra replace those of base
Overlay(base, extra) ==
    [k \in Keys |-> IF extra[k] # Absent THEN extra[k] ELSE base[k]]

\* self.env as __init__ sets it: a copy of os.environ taken now, updated
\* with extra_env, or None
InitEnv(osenv, extra) ==
    IF extra.given
    THEN [some |-> TRUE,  map |-> Overlay(osenv, extra.map)]
    ELSE [some |-> FALSE, map |-> [k \in Keys |-> Absent]]

InitRetcode == 1

----------------------------------------------------------------------------
(* Command: outcomes of launching the program *)

Exited(n)     == [kind |-> "exit",      code |-> n, text |-> ""]

Signaled(s)   == [kind |-> "signal",    code |-> s, text |-> ""]

LaunchFailed(t) == [kind |-> "oserror", code |-> 0, text |-> t]

\* a KeyboardInterrupt delivered to the invoking process while it waits
Interrupted   == [kind |-> "interrupt", code |-> 0, text |-> ""]

OsErrors == {"ENOENT", "EACCES"}

Outcomes ==
    {Exited(n) : n \in 0..MaxExit} \cup {Signaled(s) : s \in 1..MaxSig}
    \cup {LaunchFailed(t) : t \in OsErrors} \cup {Interrupted}

NoOutcome == [kind |-> "none", code |-> 0, text |-> ""]

----------------------------------------------------------------------------
(* Command: events of one invocation, in the order they happen *)

Debug == [ev |-> "debug", kind |-> "call", n |-> 0, text |-> ""]

Err(kind, n, text) == [ev |-> "err", kind |-> kind, n |-> n, text |-> text]

Raise(kind, text) == [ev |-> "raise", kind |-> kind, n |-> 0, text |-> text]

\* Cmdline with the call arguments put before the fixed ones
CmdlineSwapped(fixed, A) == <<Prog>> \o A \o fixed

\* cmd = [ self.cmd ] + self.args + args
Cmdline(fixed, A) == <<Prog>> \o fixed \o A

\* what subprocess.call hands to the OS: the list, or with shell=True the
\* joined string as the command of /bin/sh -c
ExecArgv(fixed, A, sh) ==
    IF sh THEN << <<"s", "h">>, <<"-", "c">>, Join(Cmdline(fixed, A)) >>
    ELSE Cmdline(fixed, A)

\* the argument vector the program itself is started with
ProgArgv(fixed, A, sh) ==
    IF sh THEN ShellSplit(Join(Cmdline(fixed, A))) ELSE Cmdline(fixed, A)

\* ChildEnv with env=self.env left out of the call
ChildEnvInherit(selfenv, osenv) == osenv

\* env=self.env: None lets the child inherit os.environ as it is now
ChildEnv(selfenv, osenv) == IF selfenv.some THEN selfenv.map ELSE osenv

\* the value subprocess.call returns: the exit code, or -signal
CallReturn(o) == IF o.kind = "signal" THEN 0 - o.code ELSE o.code

\* __run: the return code
RunRetcode(o) == IF o.kind = "oserror" THEN 1 ELSE CallReturn(o)

\* __run: the error-level log lines
RunErrs(o) ==
    ( IF o.kind = "oserror" THEN <<Err("execfailed", 0, o.text)>>
      ELSE IF CallReturn(o) < 0 THEN <<Err("signal", 0 - CallReturn(o), "")>>
      ELSE IF CallReturn(o) > 0 THEN <<Err("returned", CallReturn(o), "")>>
      ELSE <<>> )
    \o (IF RunRetcode(o) # 0 THEN <<Err("run_error", 0, "")>> ELSE <<>>)

\* StrictTrace raising only for a positive return code
StrictTracePositive(o) ==
    IF o.kind = "interrupt" THEN <<Debug, Raise("KeyboardInterrupt", "")>>
    ELSE <<Debug>> \o RunErrs(o)
         \o (IF RunRetcode(o) > 0 THEN <<Raise("CommandExecFailed", "")>> ELSE <<>>)

\* Command.__call__: if self.__run(args): raise CommandExecFailed
StrictTrace(o) ==
    IF o.kind = "interrupt" THEN <<Debug, Raise("KeyboardInterrupt", "")>>
    ELSE <<Debug>> \o RunErrs(o)
         \o (IF RunRetcode(o) # 0 THEN <<Raise("CommandExecFailed", "")>> ELSE <<>>)

\* LenientTrace treating a nonzero status as the strict form does
LenientTraceLoud(o) ==
    IF o.kind = "interrupt" THEN <<Debug, Raise("KeyboardInterrupt", "")>>
    ELSE IF o.kind = "oserror" THEN <<Debug, Raise("CommandExecFailed", o.text)>>
    ELSE <<Debug>> \o RunErrs(o)
         \o (IF RunRetcode(o) # 0 THEN <<Raise("CommandExecFailed", "")>> ELSE <<>>)

\* Command.call: only OSError is converted
LenientTrace(o) ==
    IF o.kind = "interrupt" THEN <<Debug, Raise("KeyboardInterrupt", "")>>
    ELSE IF o.kind = "oserror" THEN <<Debug, Raise("CommandExecFailed", o.text)>>
    ELSE <<Debug>>

\* self.retcode after __run
StrictRetcode(o, old) == IF o.kind = "interrupt" THEN old ELSE RunRetcode(o)

\* self.retcode after call
LenientRetcode(o, old) == old

Invocation(form, A, o, tr, returned, ret, dir, launched) ==
    [ form |-> form, A |-> A, outcome |-> o, launched |-> launched,
      argv |-> IF launched THEN ExecArgv(args, A, shell) ELSE <<>>,
      progArgv |-> IF launched THEN ProgArgv(args, A, shell) ELSE <<>>,
      env |-> ChildEnv(env, environ), ambient |-> environ,
      trace |-> tr, returned |-> returned, ret |-> ret,
      cwdBefore |-> cwd, dir |-> dir ]

NoInvocation ==
    [ form |-> "none", A |-> <<>>, outcome |-> NoOutcome, launched |-> FALSE,
      argv |-> <<>>, progArgv |-> <<>>,
      env |-> [k \in Keys |-> Absent], ambient |-> [k \in Keys |-> Absent],
      trace |-> <<>>, returned |-> FALSE, ret |-> 0,
      cwdBefore |-> "/w", dir |-> "/w" ]

Raises(tr) == \E i \in 1..Len(tr) : tr[i].ev = "raise"

----------------------------------------------------------------------------
(* Command: operations *)

\* Command.__call__(args)
Strict(A, o) ==
    /\ last' = Invocation("strict", A, o, StrictTrace(o),
                          ~Raises(StrictTrace(o)), 0, cwd, TRUE)
    /\ retcode' = StrictRetcode(o, retcode)
    /\ UNCHANGED <<args, shell, extra_env, env, environ, cwd, ctor>>
    /\ UNCHANGED copyVars

\* Command.call(args)
Lenient(A, o) ==
    /\ last' = Invocation("lenient", A, o, LenientTrace(o),
                          ~Raises(LenientTrace(o)),
                          IF Raises(LenientTrace(o)) THEN 0 ELSE CallReturn(o),
                          cwd, TRUE)
    /\ retcode' = LenientRetcode(o, retcode)
    /\ UNCHANGED <<args, shell, extra_env, env, environ, cwd, ctor>>
    /\ UNCHANGED copyVars

\* which exceptions the handler of RunAtCommand.__call__ catches
CaughtByExceptException(kind) == kind # "KeyboardInterrupt"

\* the working directory RunAtCommand.__call__ leaves behind, given the
\* directory it switched to and the events of the wrapped call
CwdAfterWrapped(curdir, dir, tr) ==
    IF ~Raises(tr) THEN curdir
    ELSE IF CaughtByExceptException(tr[Len(tr)].kind) THEN curdir
    ELSE dir

\* RunAtCommand.__call__(dir, args), chdirOk: whether os.chdir(dir) succeeds
RunAt(dir, A, o, chdirOk) ==
    /\ IF chdirOk
       THEN /\ last' = Invocation("runat", A, o, StrictTrace(o),
                                  ~Raises(StrictTrace(o)), 0, dir, TRUE)
            /\ retcode' = StrictRetcode(o, retcode)
            /\ cwd' = CwdAfterWrapped(cwd, dir, StrictTrace(o))
       ELSE /\ last' = Invocation("runat", A, NoOutcome, <<Raise("OSError", "ENOENT")>>,
                                  FALSE, 0, dir, FALSE)
            /\ retcode' = retcode
            /\ cwd' = CwdAfterWrapped(cwd, cwd, <<Raise("OSError", "ENOENT")>>)
    /\ UNCHANGED <<args, shell, extra_env, env, environ, ctor>>
    /\ UNCHANGED copyVars

\* the surrounding program changes its environment (os.environ[k] = v)
Putenv(k, v) ==
    /\ environ[k] # v
    /\ environ' = [environ EXCEPT ![k] = v]
    /\ UNCHANGED <<args, shell, extra_env, env, retcode, cwd, ctor, last>>
    /\ UNCHANGED copyVars

----------------------------------------------------------------------------
(* copy_from: pure parts *)

DotDot == <<DOT, DOT>>

\* the loop of posixpath.normpath over the components of the path
RECURSIVE NormComps(_, _, _)
NormComps(comps, new, initial) ==
    IF comps = <<>> THEN new
    ELSE LET comp == Head(comps)
         IN  IF comp = <<>> \/ comp = <<DOT>>
             THEN NormComps(Tail(comps), new, initial)
             ELSE IF \/ comp # DotDot
                     \/ (initial = 0 /\ new = <<>>)
                     \/ (new # <<>> /\ new[Len(new)] = DotDot)
             THEN NormComps(Tail(comps), Append(new, comp), initial)
             ELSE IF new # <<>>
             THEN NormComps(Tail(comps), SubSeq(new, 1, Len(new) - 1), initial)
             ELSE NormComps(Tail(comps), new, initial)

RECURSIVE JoinSlash(_)
JoinSlash(comps) ==
    IF comps = <<>> THEN <<>>
    ELSE IF Len(comps) = 1 THEN comps[1]
    ELSE comps[1] \o <<SLASH>> \o JoinSlash(Tail(comps))

StartsWith(s, n) == Len(s) >= n /\ \A i \in 1..n : s[i] = SLASH

InitialSlashes(path) ==
    IF ~StartsWith(path, 1) THEN 0
    ELSE IF StartsWith(path, 2) /\ ~StartsWith(path, 3) THEN 2
    ELSE 1

\* os.path.normpath
Normpath(path) ==
    IF path = <<>> THEN <<DOT>>
    ELSE LET initial == InitialSlashes(path)
             joined  == JoinSlash(NormComps(SplitOn(path, SLASH), <<>>, initial))
             whole   == [i \in 1..initial |-> SLASH] \o joined
         IN  IF whole = <<>> THEN <<DOT>> ELSE whole

\* the condition of the list comprehension: "if files", the truth value of
\* the whole list
KeepEntry(f, fs) == fs # <<>>

\* [ os.path.normpath(f) for f in files if files ]
PathList(fs) ==
    LET kept == SelectSeq(fs, LAMBDA f : KeepEntry(f, fs))
    IN  [i \in 1..Len(kept) |-> Normpath(kept[i])]

\* Truthy taking only a positive status for a failure
TruthyPositive(status) == status > 0

\* the truth value of an exit status in "if p1.wait() or p2.wait()"
Truthy(status) == status # 0

----------------------------------------------------------------------------
(* copy_from: the output the consumer writes, one path per line *)

LinePool ==
    { <<"a">>, <<DOT, SLASH>>, <<DOT, SLASH, "a">>, <<"a", SLASH, SLASH, "b">> }

Outputs == {Concat([i \in 1..Len(ls) |-> ls[i] \o <<NL>>]) : ls \in SeqsUpTo(LinePool, MaxLines)}

\* the statuses a child can end with, as Popen.wait reports them: an exit
\* code, or minus the number of the signal that killed it
Statuses == (0..MaxExit) \cup {0 - s : s \in 1..MaxSig}

NoChild == [st |-> "none", status |-> 0, out |-> <<>>]

NoResult == [some |-> FALSE, paths |-> <<>>]

LaunchResults == {"ok", "oserror", "valueerror"}

----------------------------------------------------------------------------
(* copy_from: steps of the invoking process and of the two children *)

\* both except clauses: raise GbpError, "Cannot copy files: %s" % err
RaiseGbpError ==
    /\ pc' = "raised"
    /\ gbpErrors' = gbpErrors + 1
    /\ UNCHANGED <<files, result>>

\* p1 = subprocess.Popen([...], stdout=subprocess.PIPE, cwd=orig_dir)
LaunchProducer(r) ==
    /\ pc = "start"
    /\ IF r = "ok"
       THEN /\ p1' = [st |-> "running", status |-> 0, out |-> <<>>]
            /\ pipeReaders' = {"parent"}
            /\ pc' = "p1started"
            /\ UNCHANGED <<files, result, gbpErrors>>
       ELSE /\ RaiseGbpError
            /\ UNCHANGED <<p1, pipeReaders>>
    /\ UNCHANGED p2
    /\ UNCHANGED cmdVars

\* p2 = subprocess.Popen([...], stdin=p1.stdout, stdout=subprocess.PIPE)
LaunchConsumer(r) ==
    /\ pc = "p1started"
    /\ IF r = "ok"
       THEN /\ p2' = [st |-> "running", status |-> 0, out |-> <<>>]
            /\ pipeReaders' = pipeReaders \cup {"p2"}
            /\ pc' = "communicate"
            /\ UNCHANGED <<files, result, gbpErrors>>
       ELSE /\ RaiseGbpError
            /\ UNCHANGED <<p2, pipeReaders>>
    /\ UNCHANGED p1
    /\ UNCHANGED cmdVars

\* the producer ends
ProducerExit(status) ==
    /\ p1.st = "running"
    /\ p1' = [p1 EXCEPT !.st = "zombie", !.status = status]
    /\ UNCHANGED <<pc, p2, pipeReaders, files, result, gbpErrors>>
    /\ UNCHANGED cmdVars

\* the consumer ends, having written out; its handle on the pipe closes
ConsumerExit(status, out) ==
    /\ p2.st = "running"
    /\ p2' = [st |-> "zombie", status |-> status, out |-> out]
    /\ pipeReaders' = pipeReaders \ {"p2"}
    /\ UNCHANGED <<pc, p1, files, result, gbpErrors>>
    /\ UNCHANGED cmdVars

\* files = p2.communicate()[0].split('\n'): reads to end of file and waits
Communicate ==
    /\ pc = "communicate"
    /\ p2.st = "zombie"
    /\ p2' = [p2 EXCEPT !.st = "reaped"]
    /\ files' = SplitOn(p2.out, NL)
    /\ pc' = "wait1"
    /\ UNCHANGED <<p1, pipeReaders, result, gbpErrors>>
    /\ UNCHANGED cmdVars

\* if p1.wait() ...
WaitProducer ==
    /\ pc = "wait1"
    /\ p1.st = "zombie"
    /\ p1' = [p1 EXCEPT !.st = "reaped"]
    /\ IF Truthy(p1.status)
       THEN RaiseGbpError
       ELSE /\ pc' = "wait2"
            /\ UNCHANGED <<files, result, gbpErrors>>
    /\ UNCHANGED <<p2, pipeReaders>>
    /\ UNCHANGED cmdVars

\* ... or p2.wait(): raise GbpError; return [...]
WaitConsumer ==
    /\ pc = "wait2"
    /\ p2.st = "reaped"
    /\ IF Truthy(p2.status)
       THEN RaiseGbpError
       ELSE /\ pc' = "returned"
            /\ result' = [some |-> TRUE, paths |-> PathList(files)]
            /\ UNCHANGED <<files, gbpErrors>>
    /\ UNCHANGED <<p1, p2, pipeReaders>>
    /\ UNCHANGED cmdVars

----------------------------------------------------------------------------
(* Specifications *)

CopyAtRest ==
    /\ pc = "start"
    /\ p1 = NoChild
    /\ p2 = NoChild
    /\ pipeReaders = {}
    /\ files = <<>>
    /\ result = NoResult
    /\ gbpErrors = 0

\* Command.__init__(cmd, args, shell, extra_env) in a process whose
\* environment is osenv and whose working directory is dir
Construct(fixed, sh, extra, osenv, dir) ==
    /\ args = fixed
    /\ shell = sh
    /\ extra_env = extra
    /\ env = InitEnv(osenv, extra)
    /\ retcode = InitRetcode
    /\ environ = osenv
    /\ cwd = dir
    /\ ctor = [args |-> fixed, environ |-> osenv]
    /\ last = NoInvocation

DefaultEnviron == [k \in Keys |-> "u"]

\* invokers of every argument list and shell mode, called in the strict and
\* the lenient form
Init ==
    /\ \E fixed \in ArgLists, sh \in BOOLEAN :
          Construct(fixed, sh, NoExtraEnv, DefaultEnviron, "/w")
    /\ CopyAtRest

Next ==
    \/ \E A \in ArgLists, o \in Outcomes : Strict(A, o)
    \/ \E A \in ArgLists, o \in Outcomes : Lenient(A, o)

Spec == Init /\ [][Next]_vars

\* a RunAtCommand called with every directory, from every working directory
RunAtInit ==
    /\ \E dir \in Dirs : Construct(<<>>, FALSE, NoExtraEnv, DefaultEnviron, dir)
    /\ CopyAtRest

RunAtNext ==
    \E dir \in Dirs, A \in ArgLists, o \in Outcomes, ok \in BOOLEAN : RunAt(dir, A, o, ok)

SpecRunAt == RunAtInit /\ [][RunAtNext]_vars

\* invokers of every extra environment, in a process that changes its
\* environment between the calls
EnvInit ==
    /\ \E extra \in ExtraEnvs, osenv \in Environs :
          Construct(<<>>, FALSE, extra, osenv, "/w")
    /\ CopyAtRest

EnvNext ==
    \/ \E o \in Outcomes : Strict(<<>>, o)
    \/ \E o \in Outcomes : Lenient(<<>>, o)
    \/ \E k \in Keys, v \in Vals : Putenv(k, v)

SpecEnv == EnvInit /\ [][EnvNext]_vars

\* one run of copy_from
CopyInit ==
    /\ Construct(<<>>, FALSE, NoExtraEnv, DefaultEnviron, "/w")
    /\ CopyAtRest

CopyNext ==
    \/ \E r \in LaunchResults : LaunchProducer(r)
    \/ \E r \in LaunchResults : LaunchConsumer(r)
    \/ \E s \in Statuses : ProducerExit(s)
    \/ \E s \in Statuses, out \in Outputs : ConsumerExit(s, out)
    \/ Communicate
    \/ WaitProducer
    \/ WaitConsumer

SpecCopy == CopyInit /\ [][CopyNext]_vars

----------------------------------------------------------------------------
(* Properties of the strict and the lenient form *)

RaiseCount(tr, kind) ==
    Cardinality({i \in 1..Len(tr) : tr[i].ev = "raise" /\ tr[i].kind = kind})

ErrLines(tr) == {i \in 1..Len(tr) : tr[i].ev = "err"}

\* an error-level line of this kind naming n was logged before the raise
LoggedBeforeRaise(tr, kind, n) ==
    \E i, j \in 1..Len(tr) :
        /\ i < j
        /\ tr[i].ev = "err" /\ tr[i].kind = kind /\ tr[i].n = n
        /\ tr[j].ev = "raise"

CleanExit(o) == o.kind = "exit" /\ o.code = 0

HasOutcome(o) == o.kind \in {"exit", "signal", "oserror"}

\* C1: a strict invocation raises CommandExecFailed exactly when the outcome
\* is not a clean exit 0 (exit N > 0, death by signal S, launch failure); on
\* exit 0 it raises nothing and logs no error-level line; on exit N > 0 it
\* raises exactly one CommandExecFailed, after at least one error-level line
\* naming N (naming S for a signal).
C1_StrictRaisesIffNotCleanExit ==
    (last.form = "strict" /\ HasOutcome(last.outcome)) =>
        LET tr == last.trace
            o  == last.outcome
        IN  /\ (RaiseCount(tr, "CommandExecFailed") > 0) <=> ~CleanExit(o)
            /\ CleanExit(o) =>
                  /\ ~Raises(tr)
                  /\ ErrLines(tr) = {}
                  /\ last.returned
            /\ (o.kind = "exit" /\ o.code > 0) =>
                  /\ RaiseCount(tr, "CommandExecFailed") = 1
                  /\ \A i \in 1..Len(tr) :
                        tr[i].ev = "raise" => (i = Len(tr) /\ tr[i].kind = "CommandExecFailed")
                  /\ LoggedBeforeRaise(tr, "returned", o.code)
            /\ o.kind = "signal" =>
                  /\ RaiseCount(tr, "CommandExecFailed") = 1
                  /\ LoggedBeforeRaise(tr, "signal", o.code)

C1_Witness ==
    /\ last.form = "strict"
    /\ last.outcome = Exited(MaxExit)
    /\ RaiseCount(last.trace, "CommandExecFailed") = 1
    /\ ErrLines(last.trace) # {}

\* C2: a lenient invocation of a program that exits N returns N, raises
\* nothing and logs no error-level line, for every N >= 0; it raises only on
\* a launch failure, and then CommandExecFailed carrying the OS error text.
C2_LenientReturnsStatus ==
    (last.form = "lenient" /\ HasOutcome(last.outcome)) =>
        LET tr == last.trace
            o  == last.outcome
        IN  /\ o.kind = "exit" =>
                  /\ last.returned
                  /\ last.ret = o.code
                  /\ ~Raises(tr)
                  /\ ErrLines(tr) = {}
            /\ Raises(tr) <=> o.kind = "oserror"
            /\ o.kind = "oserror" =>
                  /\ ~last.returned
                  /\ \A i \in 1..Len(tr) :
                        tr[i].ev = "raise" =>
                            (tr[i].kind = "CommandExecFailed" /\ tr[i].text = o.text)

C2_Witness ==
    /\ last.form = "lenient"
    /\ last.outcome = Exited(MaxExit)
    /\ last.returned
    /\ last.ret = MaxExit

\* C3: after any sequence of strict and lenient invocations, self.retcode is
\* the exit code of the most recent invocation, in both forms.
C3_RetcodeIsLastExitCode ==
    (last.form \in {"strict", "lenient"} /\ last.outcome.kind = "exit") =>
        retcode = last.outcome.code

\* C4: after RunAtCommand.__call__ the working directory of the process is
\* what it was before the call, on every exit path: success,
\* CommandExecFailed, failure of the chdir, and any other exception or
\* interrupt leaving the wrapped call.
C4_CwdRestored == last.form = "runat" => cwd = last.cwdBefore

\* C5: every launch, of any invoker, starts the program with exactly the
\* program followed by fixed_args ++ A, in order, nothing reordered or
\* dropped; the fixed arguments are never changed.
C5_DispatchesFixedThenCall ==
    last.launched =>
        /\ last.progArgv = <<Prog>> \o ctor.args \o last.A
        /\ args = ctor.args

\* C5, amended: with shell mode off the launch executes exactly the program
\* followed by fixed_args ++ A; with shell mode on it hands /bin/sh -c the
\* single string that joins program, fixed_args and A with one space each, in
\* that order; the fixed arguments are never changed.
C5_DispatchesVectorOrJoinedLine ==
    last.launched =>
        /\ args = ctor.args
        /\ ~shell =>
              /\ last.argv = <<Prog>> \o ctor.args \o last.A
              /\ last.progArgv = last.argv
        /\ shell =>
              /\ Len(last.argv) = 3
              /\ last.argv[3] = Join(<<Prog>> \o ctor.args \o last.A)

C5_Witness ==
    /\ last.launched
    /\ ~shell
    /\ args = <<Str_a>>
    /\ last.A = <<Str_a>>
    /\ last.argv = <<Prog, Str_a, Str_a>>

\* C8: with extra environment E the child gets the environment of the
\* invoking process as it is at the invocation, with the keys of E laid over
\* it; without extra environment it gets that environment unchanged.
C8_ChildEnvIsAmbientOverlaid ==
    last.launched =>
        \A k \in Keys :
            last.env[k] =
                IF extra_env.given /\ extra_env.map[k] # Absent
                THEN extra_env.map[k]
                ELSE last.ambient[k]

\* C8, amended: with extra environment E the child gets the environment the
\* invoking process had when the invoker was constructed, with the keys of E
\* laid over it; without extra environment it gets the environment of the
\* invoking process as it is at the invocation, unchanged.
C8_ChildEnvIsConstructionOverlaid ==
    last.launched =>
        \A k \in Keys :
            last.env[k] =
                IF ~extra_env.given THEN last.ambient[k]
                ELSE IF extra_env.map[k] # Absent THEN extra_env.map[k]
                ELSE ctor.environ[k]

C8_Witness ==
    /\ last.launched
    /\ extra_env.given
    /\ extra_env.map["K1"] = "x"
    /\ last.ambient["K2"] # ctor.environ["K2"]
    /\ last.env["K1"] = "x"
    /\ last.env["K2"] = ctor.environ["K2"]

----------------------------------------------------------------------------
(* Properties of copy_from *)

Done == pc \in {"returned", "raised"}

\* C6: copy_from returns a list or raises exactly one GbpError, never both;
\* a failed launch of either child, a value error, or a nonzero status of
\* either child (a signal included) ends in GbpError with no list handed to
\* the caller; a list is returned only when both children exited 0.
C6_ReturnsListOrRaisesOnce ==
    /\ gbpErrors <= 1
    /\ (pc = "raised") <=> (gbpErrors = 1)
    /\ (pc = "returned") <=> result.some
    /\ ~(result.some /\ gbpErrors > 0)
    /\ (p1.st = "none" /\ pc # "start") => pc = "raised"
    /\ (p2.st = "none" /\ pc \notin {"start", "p1started"}) => pc = "raised"
    /\ (p1.st = "reaped" /\ p1.status # 0) => pc = "raised"
    /\ (Done /\ p2.st = "reaped" /\ p2.status # 0) => pc = "raised"
    /\ result.some =>
          /\ p1.st = "reaped" /\ p1.status = 0
          /\ p2.st = "reaped" /\ p2.status = 0

C6_Witness ==
    /\ pc = "raised"
    /\ gbpErrors = 1
    /\ p1.st = "reaped" /\ p1.status = 0
    /\ p2.st = "reaped" /\ p2.status # 0
    /\ p2.out # <<>>
    /\ ~result.some

NonEmptyLines(out) == SelectSeq(SplitOn(out, NL), LAMBDA l : l # <<>>)

\* C7: the list copy_from returns has one normalized entry per non-empty
\* line of the consumer's output, in output order, and no entry that stems
\* from an empty line.
C7_EmptyEntriesFiltered ==
    result.some =>
        result.paths =
            [i \in 1..Len(NonEmptyLines(p2.out)) |-> Normpath(NonEmptyLines(p2.out)[i])]

\* C9: once both children are started and before the invoking process
\* blocks reading or waiting, it has closed its own handle on the producer's
\* stdout pipe, so that the consumer is the only reader left.
C9_ParentClosedProducerPipe ==
    pc \in {"communicate", "wait1", "wait2"} => "parent" \notin pipeReaders

\* C10: when copy_from returns or raises, every child that was launched has
\* been waited for.
C10_AllChildrenReaped ==
    Done => (p1.st \in {"none", "reaped"} /\ p2.st \in {"none", "reaped"})

====
